---------------------------- MODULE Spec2Model ----------------------------
(***************************************************************************)
(* A model of nilhecke: odd (graded) monomials and polynomials, the signed *)
(* monomial product, the elementary transforms ss/sb/sd, the three        *)
(* divided-difference operator families ps/pb/pd, the textual parser and  *)
(* formatter, and the closure enumeration of the `schud` command.         *)
(*                                                                         *)
(* A monomial is a record [coefficient, powers]; powers is a sequence.    *)
(* Rust indexes powers from 0, TLA+ from 1: Rust's powers[k] is           *)
(* powers[k + 1] here.  A polynomial is the sequence of its terms         *)
(* (OddPolynomial.terms), in insertion order.                              *)
(***************************************************************************)
EXTENDS Integers, Sequences, FiniteSets, TLC

VARIABLES
    pc,            \* position of the program modelled by the specification
    lhs, rhs,      \* operands of the monomial product being computed (self, other)
    third,         \* a third monomial, for products of three
    powers,        \* Mul::mul local: the result's power vector
    coefficient,   \* Mul::mul local: the result's coefficient
    n_variables,   \* Mul::mul local: the running count
    i,             \* Mul::mul local: loop index (0-based, as in the source)
    fault,         \* "none", or the run-time fault the product raised
    left, right,   \* (lhs * rhs) * third and lhs * (rhs * third)
    rank,          \* schud: n
    seed,          \* schud: deltad
    degree,        \* schud: degree
    round,         \* schud: rounds of the outer loop done
    schuberts,     \* schud: the HashSet of polynomials
    p1, p2,        \* the polynomials a command holds
    op,            \* the operation last applied to them
    res, res2,     \* its result (and a second result, when it computes two)
    out,           \* text written by Display
    input,         \* text handed to from_str
    parsed         \* what from_str did with it

mulVars == <<lhs, rhs, third, powers, coefficient, n_variables, i, fault, left, right>>
schudVars == <<rank, seed, degree, round, schuberts>>
algVars == <<p1, p2, op, res, res2, out>>
textVars == <<input, parsed>>
vars == <<pc, mulVars, schudVars, algVars, textVars>>

-----------------------------------------------------------------------------
(* Bounds of the model. *)

\* longest power vector of an operand of the monomial product
MaxLen == 3
\* largest total exponent sum of an operand of the monomial product
MaxDeg == 3

\* coefficients of the operands: the units and a non-unit
CoefSet == {-1, 1, 2}

\* all power vectors of length at most len with exponents at most pow
PowerVecs(len, pow) == UNION {[1..l -> 0..pow] : l \in 0..len}

Monomials(len, pow, coefs) ==
    {[coefficient |-> c, powers |-> p] : c \in coefs, p \in PowerVecs(len, pow)}

-----------------------------------------------------------------------------
(* Helpers over Vec<u32>. *)

Max(a, b) == IF a >= b THEN a ELSE b

RECURSIVE Pad(_, _)
\* `for _ in powers.len()..len { powers.push(0) }`
Pad(p, len) == IF Len(p) >= len THEN p ELSE Pad(Append(p, 0), len)

\* `powers.get(k).unwrap_or(&0)` (k is 1-based here)
Get(p, k) == IF k <= Len(p) THEN p[k] ELSE 0

\* `powers.swap(a, b)` (1-based)
Swap(p, a, b) == [p EXCEPT ![a] = p[b], ![b] = p[a]]

RECURSIVE SumFrom(_, _)
\* `powers.iter().skip(k - 1).sum()`
SumFrom(p, k) == IF k > Len(p) THEN 0 ELSE p[k] + SumFrom(p, k + 1)

\* `iter().position(|&p| p != 0)`, 1-based, 0 for None
FirstNonzero(p) ==
    IF \E k \in 1..Len(p) : p[k] # 0
    THEN CHOOSE k \in 1..Len(p) : p[k] # 0 /\ \A j \in 1..(k - 1) : p[j] = 0
    ELSE 0

\* `iter().rposition(|&power| power != 0)`, 1-based, 0 for None
LastNonzero(p) ==
    IF \E k \in 1..Len(p) : p[k] # 0
    THEN CHOOSE k \in 1..Len(p) : p[k] # 0 /\ \A j \in (k + 1)..Len(p) : p[j] = 0
    ELSE 0

-----------------------------------------------------------------------------
(* OddMonomial *)

new(c, p) == [coefficient |-> c, powers |-> p]

\* OddMonomial::x(n): the single generator x_n
x(n) == [coefficient |-> 1, powers |-> Append(Pad(<<>>, n - 1), 1)]

is_zero(m) == m.coefficient = 0

\* OddMonomial::ss
ss(m, n) ==
    LET p == Pad(m.powers, n + 1)
        c == IF (p[n] + p[n + 1]) % 2 # 0 THEN -m.coefficient ELSE m.coefficient
    IN  new(c, Swap(p, n, n + 1))

\* OddMonomial::sb
sb(m, n) ==
    LET p == Pad(m.powers, n)
        c == IF p[n] % 2 # 0 THEN -m.coefficient ELSE m.coefficient
    IN  new(c, p)

\* OddMonomial::sd (n >= 2)
sd(m, n) ==
    LET p == Pad(m.powers, n + 1)
    IN  new(m.coefficient, Swap(p, n - 1, n))

-----------------------------------------------------------------------------
(* impl Mul for &OddMonomial, as a loop: the state before the loop, one    *)
(* iteration, and the loop run to its end.                                 *)

\* MulStart with the running count taken over every power (no `skip(1)`)
MulStartNoSkip(self, other) ==
    [powers      |-> Pad(self.powers, Len(other.powers)),
     coefficient |-> self.coefficient * other.coefficient,
     n_variables |-> SumFrom(self.powers, 1),
     i           |-> 0,
     fault       |-> "none"]

\* lines 198-205: clone, coefficient product, padding, the running count
MulStart(self, other) ==
    [powers      |-> Pad(self.powers, Len(other.powers)),
     coefficient |-> self.coefficient * other.coefficient,
     n_variables |-> SumFrom(self.powers, 2),
     i           |-> 0,
     fault       |-> "none"]

\* MulIter with the sign flipped on an odd power whatever the running count
MulIterIgnoresCount(s, other) ==
    LET power == other.powers[s.i + 1]
        pw    == [s.powers EXCEPT ![s.i + 1] = @ + power]
        c1    == IF power % 2 # 0 THEN -s.coefficient ELSE s.coefficient
        s1    == [s EXCEPT !.powers = pw, !.coefficient = c1, !.i = s.i + 1]
    IN  IF s.n_variables > 0
        THEN IF s.i + 2 > Len(pw)
             THEN [s1 EXCEPT !.fault = "index"]
             ELSE IF pw[s.i + 2] > s.n_variables
                  THEN [s1 EXCEPT !.fault = "underflow"]
                  ELSE [s1 EXCEPT !.n_variables = s.n_variables - pw[s.i + 2]]
        ELSE s1

\* MulIter with the running count never decreased
MulIterKeepsCount(s, other) ==
    LET power == other.powers[s.i + 1]
        pw    == [s.powers EXCEPT ![s.i + 1] = @ + power]
        c1    == IF s.n_variables % 2 # 0 /\ power % 2 # 0
                 THEN -s.coefficient ELSE s.coefficient
    IN  [s EXCEPT !.powers = pw, !.coefficient = c1, !.i = s.i + 1]

\* lines 207-215: the loop body at index s.i
MulIter(s, other) ==
    LET power == other.powers[s.i + 1]
        pw    == [s.powers EXCEPT ![s.i + 1] = @ + power]
        c1    == IF s.n_variables % 2 # 0 /\ power % 2 # 0
                 THEN -s.coefficient ELSE s.coefficient
        s1    == [s EXCEPT !.powers = pw, !.coefficient = c1, !.i = s.i + 1]
    IN  IF s.n_variables > 0
        THEN IF s.i + 2 > Len(pw)
             THEN [s1 EXCEPT !.fault = "index"]
             ELSE IF pw[s.i + 2] > s.n_variables
                  THEN [s1 EXCEPT !.fault = "underflow"]
                  ELSE [s1 EXCEPT !.n_variables = s.n_variables - pw[s.i + 2]]
        ELSE s1

RECURSIVE MulLoop(_, _)
MulLoop(s, other) ==
    IF s.i >= Len(other.powers) \/ s.fault # "none" THEN s
    ELSE MulLoop(MulIter(s, other), other)

\* self * other
MonoMul(self, other) ==
    LET s == MulLoop(MulStart(self, other), other)
    IN  new(s.coefficient, s.powers)

-----------------------------------------------------------------------------
(* OddPolynomial *)

\* the closure in add_monomial's position(): equal zero-padded power vectors
SameSupport(p, q) == \A k \in 1..Max(Len(p), Len(q)) : Get(p, k) = Get(q, k)

\* `self.terms.iter().position(..)`, 1-based, 0 for None
TermPosition(terms, other) ==
    IF \E k \in 1..Len(terms) : SameSupport(terms[k].powers, other.powers)
    THEN CHOOSE k \in 1..Len(terms) :
            /\ SameSupport(terms[k].powers, other.powers)
            /\ \A j \in 1..(k - 1) : ~SameSupport(terms[j].powers, other.powers)
    ELSE 0

\* `self.terms.remove(pos)`
Remove(terms, pos) ==
    SubSeq(terms, 1, pos - 1) \o SubSeq(terms, pos + 1, Len(terms))

\* OddPolynomial::from_monomial
from_monomial(m) == IF is_zero(m) THEN <<>> ELSE <<m>>

\* add_monomial finding the term by its power vector as stored, unpadded
AddMonomialUnpadded(terms, other) ==
    IF is_zero(other) THEN terms
    ELSE IF \E k \in 1..Len(terms) : terms[k].powers = other.powers
         THEN LET pos == CHOOSE k \in 1..Len(terms) : terms[k].powers = other.powers
                  c   == terms[pos].coefficient + other.coefficient
              IN  IF c = 0 THEN Remove(terms, pos)
                  ELSE [terms EXCEPT ![pos].coefficient = c]
         ELSE Append(terms, other)

\* OddPolynomial::add_monomial
add_monomial(terms, other) ==
    IF is_zero(other) THEN terms
    ELSE LET pos == TermPosition(terms, other)
         IN  IF pos # 0
             THEN LET c == terms[pos].coefficient + other.coefficient
                  IN  IF c = 0 THEN Remove(terms, pos)
                      ELSE [terms EXCEPT ![pos].coefficient = c]
             ELSE Append(terms, other)

RECURSIVE AddFrom(_, _, _)
AddFrom(poly, other, k) ==
    IF k > Len(other) THEN poly
    ELSE AddFrom(add_monomial(poly, other[k]), other, k + 1)

\* impl Add for &OddPolynomial
PolyAdd(self, other) == AddFrom(self, other, 1)

RECURSIVE MulFrom(_, _, _, _, _)
\* the two nested loops of Mul::mul, at (term1, term2) = (self[a], other[b])
MulFrom(poly, self, other, a, b) ==
    IF a > Len(self) THEN poly
    ELSE IF b > Len(other) THEN MulFrom(poly, self, other, a + 1, 1)
    ELSE MulFrom(add_monomial(poly, MonoMul(self[a], other[b])), self, other, a, b + 1)

\* impl Mul for &OddPolynomial
PolyMul(self, other) == MulFrom(<<>>, self, other, 1, 1)

-----------------------------------------------------------------------------
(* The divided-difference operators on a monomial.  pos is the source's    *)
(* 0-based position, strand the source's n.                                *)

\* the boundary coefficient `ps_pos` of each family
BoundaryS(pos, n) == IF pos = n \/ pos = n - 1 THEN 1 ELSE 0
BoundaryB(pos, n) == IF pos = n - 1 THEN 1 ELSE 0
BoundaryD(pos, n) == IF pos = n - 2 THEN 1 ELSE IF pos = n - 1 THEN -1 ELSE 0

Boundary(F, pos, n) ==
    CASE F = "s" -> BoundaryS(pos, n)
      [] F = "b" -> BoundaryB(pos, n)
      [] F = "d" -> BoundaryD(pos, n)

\* the elementary transform each family applies to the generator
Transform(F, m, n) ==
    CASE F = "s" -> ss(m, n)
      [] F = "b" -> sb(m, n)
      [] F = "d" -> sd(m, n)

RECURSIVE MonoOpKeepsPower(_, _, _)
\* MonoOp with the boundary term built from the monomial itself, not from g
MonoOpKeepsPower(F, m, n) ==
    LET k == FirstNonzero(m.powers)
    IN  IF k = 0 THEN <<>>
        ELSE LET pos        == k - 1
                 g          == [m EXCEPT !.powers[k] = @ - 1]
                 first_term == [m EXCEPT !.coefficient = @ * Boundary(F, pos, n)]
             IN  PolyAdd(from_monomial(first_term),
                         PolyMul(from_monomial(Transform(F, x(pos + 1), n)),
                                 MonoOpKeepsPower(F, g, n)))

RECURSIVE MonoOpDropsCoefficient(_, _, _)
\* MonoOp with the boundary term's coefficient set, not multiplied
MonoOpDropsCoefficient(F, m, n) ==
    LET k == FirstNonzero(m.powers)
    IN  IF k = 0 THEN <<>>
        ELSE LET pos        == k - 1
                 g          == [m EXCEPT !.powers[k] = @ - 1]
                 first_term == [g EXCEPT !.coefficient = Boundary(F, pos, n)]
             IN  PolyAdd(from_monomial(first_term),
                         PolyMul(from_monomial(Transform(F, x(pos + 1), n)),
                                 MonoOpDropsCoefficient(F, g, n)))

RECURSIVE MonoOp(_, _, _)
\* OddMonomial::ps / pb / pd
MonoOp(F, m, n) ==
    LET k == FirstNonzero(m.powers)
    IN  IF k = 0 THEN <<>>
        ELSE LET pos        == k - 1
                 g          == [m EXCEPT !.powers[k] = @ - 1]
                 first_term == [g EXCEPT !.coefficient = @ * Boundary(F, pos, n)]
             IN  PolyAdd(from_monomial(first_term),
                         PolyMul(from_monomial(Transform(F, x(pos + 1), n)),
                                 MonoOp(F, g, n)))

RECURSIVE OpFrom(_, _, _, _, _)
OpFrom(acc, F, terms, n, k) ==
    IF k > Len(terms) THEN acc
    ELSE OpFrom(PolyAdd(acc, MonoOp(F, terms[k], n)), F, terms, n, k + 1)

\* OddPolynomial::ps / pb / pd
PolyOp(F, terms, n) == OpFrom(<<>>, F, terms, n, 1)

ps(terms, n) == PolyOp("s", terms, n)
pb(terms, n) == PolyOp("b", terms, n)
pd(terms, n) == PolyOp("d", terms, n)

\* the least strand each family accepts (main.rs, `p`)
MinStrand(F) == IF F = "d" THEN 2 ELSE 1


-----------------------------------------------------------------------------
(* Each specification below runs one part of the program; the variables of *)
(* the other parts rest at these values.                                   *)

MulIdle ==
    /\ lhs = <<>>
    /\ rhs = <<>>
    /\ third = <<>>
    /\ powers = <<>>
    /\ coefficient = 0
    /\ n_variables = 0
    /\ i = 0
    /\ fault = "none"
    /\ left = <<>>
    /\ right = <<>>

SchudIdle ==
    /\ rank = 0
    /\ seed = <<>>
    /\ degree = 0
    /\ round = 0
    /\ schuberts = {}

AlgIdle ==
    /\ p1 = <<>>
    /\ p2 = <<>>
    /\ op = <<>>
    /\ res = <<>>
    /\ res2 = <<>>
    /\ out = <<>>

TextIdle ==
    /\ input = <<>>
    /\ parsed = <<>>

-----------------------------------------------------------------------------
(* The closure enumeration: main.rs, schud.  The set `schuberts` is a      *)
(* HashSet<OddPolynomial>; its hash is the derived one, which feeds the    *)
(* terms in order, each with its coefficient and its power vector as       *)
(* stored, so two members are one only if they are the same sequence of    *)
(* the same records.  A TLA+ set of term sequences is exactly that.        *)

\* largest rank entered at the prompt
MaxRank == 3
\* longest power vector of a seed
SeedLen == 3
\* largest total exponent sum of a seed
SeedDeg == 4

\* OddMonomial::degree(): the total exponent sum
MonoDegree(m) == SumFrom(m.powers, 1)

\* OddMonomial::deltad(n): the seed monomial of rank n.  Its construction is
\* not in the source; any monomial of coefficient 1 within the bounds.
deltad(n) ==
    {m \in Monomials(SeedLen, SeedDeg, {1}) : MonoDegree(m) <= SeedDeg}

\* RoundOf without the insert of line 131
RoundOfOnlyS(S, n) ==
    LET collected == {ps(poly, k) : poly \in S, k \in 1..(n - 1)}
    IN  S \cup collected

\* one pass of the outer loop's body over the set: lines 126-135
RoundOf(S, n) ==
    LET collected == {ps(poly, k) : poly \in S, k \in 1..(n - 1)}
                       \cup {pd(poly, n) : poly \in S}
    IN  S \cup collected

Init ==
    /\ pc = "prompt"
    /\ SchudIdle
    /\ MulIdle
    /\ AlgIdle
    /\ TextIdle

\* lines 116-119: a rank below 2 is refused
SchudBail ==
    /\ pc = "prompt"
    /\ \E n \in 0..1 :
        /\ rank' = n
        /\ pc' = "bail"
    /\ UNCHANGED <<seed, degree, round, schuberts, mulVars, algVars, textVars>>

\* lines 116-123: the rank is read, the seed built and inserted
SchudStart ==
    /\ pc = "prompt"
    /\ \E n \in 2..MaxRank : \E d \in deltad(n) :
        /\ rank' = n
        /\ seed' = d
        /\ degree' = MonoDegree(d)
        /\ schuberts' = {from_monomial(d)}
    /\ round' = 0
    /\ pc' = "loop"
    /\ UNCHANGED <<mulVars, algVars, textVars>>

\* lines 125-136: one iteration of `for _ in 0..degree`
SchudRound ==
    /\ pc = "loop"
    /\ round < degree
    /\ schuberts' = RoundOf(schuberts, rank)
    /\ round' = round + 1
    /\ UNCHANGED <<pc, rank, seed, degree, mulVars, algVars, textVars>>

\* lines 138-143: the loop is over, the set is printed
SchudDone ==
    /\ pc = "loop"
    /\ round >= degree
    /\ pc' = "done"
    /\ UNCHANGED <<schudVars, mulVars, algVars, textVars>>

Next == SchudBail \/ SchudStart \/ SchudRound \/ SchudDone

Spec == Init /\ [][Next]_vars

(* What the claims about the closure compare polynomials by. *)

RECURSIVE Strip(_)
\* a power vector without its trailing zeros: the support it denotes
Strip(p) == IF Len(p) > 0 /\ p[Len(p)] = 0 THEN Strip(SubSeq(p, 1, Len(p) - 1)) ELSE p

\* the set of (support, coefficient) pairs of a polynomial's terms
Canon(terms) ==
    {<<Strip(terms[k].powers), terms[k].coefficient>> : k \in 1..Len(terms)}

\* C5 as stated: a round collects ps(P, k) and pd(P, k) for every member P and
\* every strand 1 <= k < n.  (pd is taken where it is defined, k >= 2: the
\* statement is the weaker for it, and fails all the same.)
C5_RoundCollectsDPerStrand ==
    [][SchudRound =>
        \A P \in schuberts : \A k \in 1..(rank - 1) :
            /\ ps(P, k) \in schuberts'
            /\ (k >= MinStrand("d") => pd(P, k) \in schuberts')]_vars

\* C5, amended: a round merges into the set, for every member P, ps(P, k) for
\* every strand 1 <= k < n and the one D-family result pd(P, n) at the rank
\* itself, and nothing else.
C5_RoundCollectsSPerStrandDAtRank ==
    [][SchudRound =>
        /\ \A P \in schuberts :
            /\ \A k \in 1..(rank - 1) : ps(P, k) \in schuberts'
            /\ pd(P, rank) \in schuberts'
        /\ \A Q \in schuberts' \ schuberts :
            \E P \in schuberts :
                \/ \E k \in 1..(rank - 1) : Q = ps(P, k)
                \/ Q = pd(P, rank)]_vars

\* C5's case: a round of rank 3 has run, and some member's pd at strand 2 is
\* not in the set while its pd at strand 3 is.
C5_Witness ==
    /\ pc = "loop"
    /\ round >= 1
    /\ rank = 3
    /\ \E P \in schuberts : pd(P, 3) \in schuberts /\ pd(P, 2) \notin schuberts

\* C6 as stated: after `degree` rounds a further round adds nothing.
C6_FixedPointAfterDegreeRounds ==
    pc = "done" => RoundOf(schuberts, rank) = schuberts

\* C6, amended: after `degree` rounds a further round adds nothing but (at
\* most) the zero polynomial, and the set after that round is a fixed point;
\* for the seed x_1 under rank 2 the set after 1 round has 2 elements, the zero
\* polynomial not among them, and the 2nd round adds exactly the zero
\* polynomial.
C6_FixedPointUpToZero ==
    pc = "done" =>
        LET further == RoundOf(schuberts, rank)
        IN  /\ further \ schuberts \subseteq {<<>>}
            /\ RoundOf(further, rank) = further
            /\ (seed = x(1) /\ rank = 2) =>
                  /\ Cardinality(schuberts) = 2
                  /\ <<>> \notin schuberts
                  /\ further = schuberts \cup {<<>>}

\* C6's case: the loop ran its `degree` >= 1 rounds and the further round
\* does add the zero polynomial.
C6_Witness ==
    /\ pc = "done"
    /\ degree >= 1
    /\ round = degree
    /\ RoundOf(schuberts, rank) # schuberts

\* C7: the set never holds two polynomials with the same (support,
\* coefficient) pairs.
C7_NoAlgebraicDuplicates ==
    \A P \in schuberts : \A Q \in schuberts : Canon(P) = Canon(Q) => P = Q

-----------------------------------------------------------------------------
(* The monomial product, step by step (SpecMul). *)

MulMonomials ==
    {m \in Monomials(MaxLen, MaxDeg, CoefSet) : MonoDegree(m) <= MaxDeg}

MulInit ==
    /\ pc = "mul_start"
    /\ lhs \in MulMonomials
    /\ rhs \in MulMonomials
    /\ third = <<>>
    /\ powers = <<>>
    /\ coefficient = 0
    /\ n_variables = 0
    /\ i = 0
    /\ fault = "none"
    /\ left = <<>>
    /\ right = <<>>
    /\ SchudIdle
    /\ AlgIdle
    /\ TextIdle

\* the locals of Mul::mul, as one record
MulState ==
    [powers |-> powers, coefficient |-> coefficient,
     n_variables |-> n_variables, i |-> i, fault |-> fault]

\* the locals after a step
MulSet(s) ==
    /\ powers' = s.powers
    /\ coefficient' = s.coefficient
    /\ n_variables' = s.n_variables
    /\ i' = s.i
    /\ fault' = s.fault

MulBegin ==
    /\ pc = "mul_start"
    /\ MulSet(MulStart(lhs, rhs))
    /\ pc' = "mul_loop"
    /\ UNCHANGED <<lhs, rhs, third, left, right, schudVars, algVars, textVars>>

MulStep ==
    /\ pc = "mul_loop"
    /\ fault = "none"
    /\ i < Len(rhs.powers)
    /\ MulSet(MulIter(MulState, rhs))
    /\ UNCHANGED <<pc, lhs, rhs, third, left, right, schudVars, algVars, textVars>>

MulEnd ==
    /\ pc = "mul_loop"
    /\ fault = "none"
    /\ i >= Len(rhs.powers)
    /\ pc' = "mul_done"
    /\ UNCHANGED <<mulVars, schudVars, algVars, textVars>>

MulNext == MulBegin \/ MulStep \/ MulEnd

SpecMul == MulInit /\ [][MulNext]_vars

\* the sum over index pairs k # j of a_k * b_j
CrossSum(a, b) ==
    LET len == Max(Len(a), Len(b))
        RECURSIVE Diag(_)
        Diag(k) == IF k > len THEN 0 ELSE Get(a, k) * Get(b, k) + Diag(k + 1)
    IN  SumFrom(a, 1) * SumFrom(b, 1) - Diag(1)

\* C3: lhs * rhs and rhs * lhs have the same zero-padded power vector; their
\* coefficients are equal when the cross sum is even and opposite when it is
\* odd; x_1 * x_2 has coefficient 1 and x_2 * x_1 has coefficient -1.
C3_GradedAnticommutative ==
    pc = "mul_done" =>
        LET ab == new(coefficient, powers)
            ba == MonoMul(rhs, lhs)
        IN  /\ SameSupport(ab.powers, ba.powers)
            /\ CrossSum(lhs.powers, rhs.powers) % 2 = 0
                  => ab.coefficient = ba.coefficient
            /\ CrossSum(lhs.powers, rhs.powers) % 2 = 1
                  => ab.coefficient = -ba.coefficient
            /\ (lhs = x(1) /\ rhs = x(2)) => ab.coefficient = 1
            /\ (lhs = x(2) /\ rhs = x(1)) => ab.coefficient = -1

\* C3's case: a finished product of two monomials of different lengths whose
\* cross sum is odd and whose coefficient is not zero.
C3_Witness ==
    /\ pc = "mul_done"
    /\ Len(lhs.powers) # Len(rhs.powers)
    /\ CrossSum(lhs.powers, rhs.powers) % 2 = 1
    /\ coefficient # 0

\* C10: the product never faults: whenever the loop is about to run step i
\* with a positive count, index i + 1 is inside the padded result vector and
\* the power read there is at most the count; and before step i the count is
\* the sum of lhs's powers at (0-based) indices >= i + 1.
C10_ProductNeverFaults ==
    /\ fault = "none"
    /\ pc = "mul_loop" =>
          /\ n_variables = SumFrom(lhs.powers, i + 2)
          /\ (i < Len(rhs.powers) /\ n_variables > 0) =>
                /\ i + 2 <= Len(powers)
                /\ powers[i + 2] <= n_variables

\* C10's case: a product has run to its end with lhs shorter than rhs and a
\* count that started positive.
C10_Witness ==
    /\ pc = "mul_done"
    /\ Len(lhs.powers) < Len(rhs.powers)
    /\ SumFrom(lhs.powers, 2) > 0
    /\ i = Len(rhs.powers)

-----------------------------------------------------------------------------
(* Products of three monomials (SpecAssoc). *)

\* longest power vector of the three
AssocLen == 2
\* largest total exponent sum of each of the three
AssocDeg == 2

AssocMonomials ==
    {m \in Monomials(AssocLen, AssocDeg, {-1, 2}) : MonoDegree(m) <= AssocDeg}

AssocInit ==
    /\ pc = "assoc_start"
    /\ lhs \in AssocMonomials
    /\ rhs \in AssocMonomials
    /\ third \in AssocMonomials
    /\ powers = <<>>
    /\ coefficient = 0
    /\ n_variables = 0
    /\ i = 0
    /\ fault = "none"
    /\ left = <<>>
    /\ right = <<>>
    /\ SchudIdle
    /\ AlgIdle
    /\ TextIdle

\* &(&lhs * &rhs) * &third
AssocLeft ==
    /\ pc = "assoc_start"
    /\ left' = MonoMul(MonoMul(lhs, rhs), third)
    /\ pc' = "assoc_left"
    /\ UNCHANGED <<lhs, rhs, third, powers, coefficient, n_variables, i, fault, right,
                   schudVars, algVars, textVars>>

\* &lhs * &(&rhs * &third)
AssocRight ==
    /\ pc = "assoc_left"
    /\ right' = MonoMul(lhs, MonoMul(rhs, third))
    /\ pc' = "assoc_done"
    /\ UNCHANGED <<lhs, rhs, third, powers, coefficient, n_variables, i, fault, left,
                   schudVars, algVars, textVars>>

AssocNext == AssocLeft \/ AssocRight

SpecAssoc == AssocInit /\ [][AssocNext]_vars

\* C2: (lhs * rhs) * third and lhs * (rhs * third) have the same zero-padded
\* power vector and the same coefficient.
C2_Associative ==
    pc = "assoc_done" =>
        /\ SameSupport(left.powers, right.powers)
        /\ left.coefficient = right.coefficient

\* C2's case: both products of three monomials of three different lengths
\* are computed, and the sign rule has flipped the coefficient.
C2_Witness ==
    /\ pc = "assoc_done"
    /\ Len(lhs.powers) # Len(rhs.powers)
    /\ Len(rhs.powers) # Len(third.powers)
    /\ Len(lhs.powers) # Len(third.powers)
    /\ left.coefficient = -(lhs.coefficient * rhs.coefficient * third.coefficient)

-----------------------------------------------------------------------------
(* Text: Display and FromStr.  A text is a sequence of one-character       *)
(* strings.                                                                *)

Digit == <<"0", "1", "2", "3", "4", "5", "6", "7", "8", "9">>

RECURSIVE ToDec(_)
\* `{}` of a non-negative integer
ToDec(n) == IF n < 10 THEN <<Digit[n + 1]>> ELSE Append(ToDec(n \div 10), Digit[(n % 10) + 1])

\* `{}` of an i32
ToText(n) == IF n < 0 THEN <<"-">> \o ToDec(-n) ELSE ToDec(n)

RECURSIVE FmtPowers(_, _, _)
\* `for (i, &power) in self.powers.iter().enumerate().take(pos)`, from the
\* 1-based index k on; last is the 1-based index of the last nonzero power
FmtPowers(pw, k, last) ==
    IF k >= last THEN <<>>
    ELSE (IF pw[k] # 0
          THEN <<"x", "_">> \o ToDec(k) \o <<"^">> \o ToDec(pw[k]) \o <<" ">>
          ELSE <<>>) \o FmtPowers(pw, k + 1, last)

\* OddMonomial::fmt_no_sign
fmt_no_sign(m) ==
    IF is_zero(m) THEN <<"0">>
    ELSE LET last == LastNonzero(m.powers)
         IN  IF last = 0 THEN ToText(m.coefficient)
             ELSE (IF m.coefficient # 1 /\ m.coefficient # -1
                   THEN (IF m.coefficient < 0 THEN ToText(-m.coefficient)
                         ELSE ToText(m.coefficient))
                   ELSE <<>>)
                  \o FmtPowers(m.powers, 1, last)
                  \o <<"x", "_">> \o ToDec(last) \o <<"^">> \o ToDec(m.powers[last])

\* impl Display for OddMonomial
MonoDisplay(m) == (IF m.coefficient < 0 THEN <<"-">> ELSE <<>>) \o fmt_no_sign(m)

RECURSIVE FmtRest(_, _)
\* `for term in self.terms.iter().skip(1)`, from the 1-based index k on
FmtRest(terms, k) ==
    IF k > Len(terms) THEN <<>>
    ELSE (IF terms[k].coefficient < 0 THEN <<" ", "-", " ">> ELSE <<" ", "+", " ">>)
         \o fmt_no_sign(terms[k]) \o FmtRest(terms, k + 1)

\* impl Display for OddPolynomial
PolyDisplay(terms) ==
    IF terms = <<>> THEN <<"0">>
    ELSE MonoDisplay(terms[1]) \o FmtRest(terms, 2)

RECURSIVE Split(_, _)
\* `input.split(sep)`: the pieces between separators, at least one
Split(text, sep) ==
    IF \E k \in 1..Len(text) : text[k] = sep
    THEN LET k == CHOOSE k \in 1..Len(text) :
                    text[k] = sep /\ \A j \in 1..(k - 1) : text[j] # sep
         IN  <<SubSeq(text, 1, k - 1)>> \o Split(SubSeq(text, k + 1, Len(text)), sep)
    ELSE <<text>>

RECURSIVE DropEmpty(_)
DropEmpty(pieces) ==
    IF pieces = <<>> THEN <<>>
    ELSE (IF Head(pieces) = <<>> THEN <<>> ELSE <<Head(pieces)>>) \o DropEmpty(Tail(pieces))

\* `term.split_whitespace()`: the non-empty runs between blanks
split_whitespace(term) == DropEmpty(Split(term, " "))

IsDigit(c) == \E d \in 1..10 : Digit[d] = c

DigitValue(c) == (CHOOSE d \in 1..10 : Digit[d] = c) - 1

RECURSIVE DecValue(_, _)
\* the value of a run of digits, read left to right
DecValue(tok, acc) ==
    IF tok = <<>> THEN acc ELSE DecValue(Tail(tok), 10 * acc + DigitValue(Head(tok)))

AllDigits(tok) == tok # <<>> /\ \A k \in 1..Len(tok) : IsDigit(tok[k])

\* `str::parse::<i32>()`: an optional sign, then digits
ParseI32(tok) ==
    IF tok # <<>> /\ Head(tok) \in {"-", "+"}
    THEN IF AllDigits(Tail(tok))
         THEN [ok |-> TRUE,
               value |-> IF Head(tok) = "-" THEN -DecValue(Tail(tok), 0)
                         ELSE DecValue(Tail(tok), 0)]
         ELSE [ok |-> FALSE, value |-> 0]
    ELSE IF AllDigits(tok) THEN [ok |-> TRUE, value |-> DecValue(tok, 0)]
         ELSE [ok |-> FALSE, value |-> 0]

\* `str::parse::<u32>()`: an optional `+`, then digits
ParseU32(tok) ==
    IF tok # <<>> /\ Head(tok) = "+"
    THEN IF AllDigits(Tail(tok)) THEN [ok |-> TRUE, value |-> DecValue(Tail(tok), 0)]
         ELSE [ok |-> FALSE, value |-> 0]
    ELSE IF AllDigits(tok) THEN [ok |-> TRUE, value |-> DecValue(tok, 0)]
         ELSE [ok |-> FALSE, value |-> 0]

RECURSIVE ParsePowers(_, _)
\* lines 333-339: the exponents, until one does not parse
ParsePowers(components, pw) ==
    IF components = <<>> THEN [ok |-> TRUE, value |-> pw]
    ELSE LET c == ParseU32(Head(components))
         IN  IF c.ok THEN ParsePowers(Tail(components), Append(pw, c.value))
             ELSE [ok |-> FALSE, value |-> <<>>]

RECURSIVE ParseTerms(_, _, _)
\* lines 324-342: the loop over the terms, from the 1-based index k on.
\* "ok" carries the polynomial, "err" the ParsePolynomial message, "panic"
\* the message of the `expect` that aborted the call.
ParseTerms(poly, terms, k) ==
    IF k > Len(terms) THEN [status |-> "ok", value |-> poly]
    ELSE LET components == split_whitespace(terms[k])
         IN  IF components = <<>>
             THEN [status |-> "panic", value |-> "empty term"]
             ELSE LET c == ParseI32(Head(components))
                  IN  IF ~c.ok
                      THEN [status |-> "err", value |-> "invalid coefficient"]
                      ELSE LET pw == ParsePowers(Tail(components), <<>>)
                           IN  IF ~pw.ok
                               THEN [status |-> "err", value |-> "invalid power"]
                               ELSE ParseTerms(add_monomial(poly, new(c.value, pw.value)),
                                               terms, k + 1)

\* impl FromStr for OddPolynomial
from_str(text) == ParseTerms(<<>>, Split(text, "/"), 1)

-----------------------------------------------------------------------------
(* The `print` command (SpecText): a line is read and trimmed, parsed, and *)
(* the polynomial written back; an Err goes to main's report, an `expect`  *)
(* that fails ends the process.                                            *)

\* longest line typed
MaxInput == 6

\* the characters typed
Alphabet == {"0", "1", "2", "-", " ", "/", "x"}

Lines == UNION {[1..l -> Alphabet] : l \in 0..MaxInput}

RECURSIVE TrimStart(_)
TrimStart(text) ==
    IF text # <<>> /\ Head(text) = " " THEN TrimStart(Tail(text)) ELSE text

RECURSIVE TrimEnd(_)
TrimEnd(text) ==
    IF text # <<>> /\ text[Len(text)] = " "
    THEN TrimEnd(SubSeq(text, 1, Len(text) - 1)) ELSE text

\* `input.trim()` in prompt()
Trim(text) == TrimEnd(TrimStart(text))

TextInit ==
    /\ pc = "text_start"
    /\ \E line \in Lines : input = Trim(line)
    /\ parsed = <<>>
    /\ MulIdle
    /\ SchudIdle
    /\ AlgIdle

\* main.rs line 56: `.parse::<OddPolynomial>()`
TextParse ==
    /\ pc = "text_start"
    /\ parsed' = from_str(input)
    /\ pc' = "text_parsed"
    /\ UNCHANGED <<input, mulVars, schudVars, algVars>>

\* main.rs line 56: `println!("{}", ..)` of the Ok value
TextPrint ==
    /\ pc = "text_parsed"
    /\ parsed.status = "ok"
    /\ out' = PolyDisplay(parsed.value)
    /\ pc' = "text_printed"
    /\ UNCHANGED <<textVars, mulVars, schudVars, p1, p2, op, res, res2>>

\* main.rs lines 19-31: the Err is written to stderr and the loop goes on
TextReport ==
    /\ pc = "text_parsed"
    /\ parsed.status = "err"
    /\ pc' = "text_reported"
    /\ UNCHANGED <<textVars, mulVars, schudVars, algVars>>

\* the panic of `expect` unwinds through main: the process ends
TextAbort ==
    /\ pc = "text_parsed"
    /\ parsed.status = "panic"
    /\ pc' = "text_aborted"
    /\ UNCHANGED <<textVars, mulVars, schudVars, algVars>>

TextNext == TextParse \/ TextPrint \/ TextReport \/ TextAbort

SpecText == TextInit /\ [][TextNext]_vars

\* a term of the text lacks its coefficient token, or has a coefficient or an
\* exponent token that is no integer
BadTerm(term) ==
    LET components == split_whitespace(term)
    IN  \/ components = <<>>
        \/ /\ components # <<>>
           /\ \/ ~ParseI32(Head(components)).ok
              \/ \E k \in 2..Len(components) : ~ParseU32(components[k]).ok

HasBadTerm(text) ==
    LET terms == Split(text, "/")
    IN  \E k \in 1..Len(terms) : BadTerm(terms[k])

\* C8: from_str returns a ParseError (an Err, no panic, no polynomial)
\* whenever a term lacks its coefficient token or has a coefficient or an
\* exponent token that is no integer.
C8_BadTermIsParseError ==
    (pc # "text_start" /\ HasBadTerm(input)) => parsed.status = "err"

\* the text the claim describes: the sign of each term once, then the term's
\* body without a sign (the body of the term with its coefficient's absolute
\* value)
Unsigned(m) == [m EXCEPT !.coefficient = IF @ < 0 THEN -@ ELSE @]

RECURSIVE SignedOnceRest(_, _)
SignedOnceRest(terms, k) ==
    IF k > Len(terms) THEN <<>>
    ELSE (IF terms[k].coefficient < 0 THEN <<" ", "-", " ">> ELSE <<" ", "+", " ">>)
         \o fmt_no_sign(Unsigned(terms[k])) \o SignedOnceRest(terms, k + 1)

SignedOnce(terms) ==
    IF terms = <<>> THEN <<"0">>
    ELSE (IF terms[1].coefficient < 0 THEN <<"-">> ELSE <<>>)
         \o fmt_no_sign(Unsigned(terms[1])) \o SignedOnceRest(terms, 2)

\* C9: the text written for a polynomial carries each term's sign exactly
\* once: a leading "-" for a negative first term, " + " or " - " before every
\* later term, and a body without a sign, also for a term whose exponents
\* are all zero.
C9_SignWrittenOnce ==
    pc = "text_printed" => out = SignedOnce(parsed.value)

-----------------------------------------------------------------------------
(* The commands `add`, `mul` and `p` (SpecAlg): the polynomials p1 and p2  *)
(* are read term by term as from_str reads them; `add` and `mul` combine   *)
(* them; `p` applies operators to p1, each to the result of the one        *)
(* before.  A last command applies an operator to the sum p1 + p2 and,     *)
(* separately, to p1 and to p2.                                            *)

\* longest power vector of a term read
AlgLen == 2
\* largest total exponent sum of a term read
AlgDeg == 2
\* largest sum of absolute coefficients over the terms of p1 and p2
AlgSize == 3
\* largest strand handed to an operator
AlgStrand == 2

Abs(n) == IF n < 0 THEN -n ELSE n

\* the terms read: units, and zero terms too
AlgMonomials ==
    {m \in Monomials(AlgLen, AlgDeg, {-1, 0, 1}) : MonoDegree(m) <= AlgDeg}

RECURSIVE Size(_)
Size(terms) ==
    IF terms = <<>> THEN 0 ELSE Abs(Head(terms).coefficient) + Size(Tail(terms))

\* the strands of family F
Strands(F) == MinStrand(F)..AlgStrand

Families == {"s", "b", "d"}

AlgInit ==
    /\ pc = "alg_read"
    /\ p1 = <<>>
    /\ p2 = <<>>
    /\ op = <<"new">>
    /\ res = <<>>
    /\ res2 = <<>>
    /\ out = <<>>
    /\ MulIdle
    /\ SchudIdle
    /\ TextIdle

\* OddPolynomial::from_monomial
AlgFromMonomial ==
    /\ pc = "alg_read"
    /\ p1 = <<>>
    /\ p2 = <<>>
    /\ \E m \in AlgMonomials : res' = from_monomial(m)
    /\ op' = <<"from_monomial">>
    /\ pc' = "alg_done"
    /\ UNCHANGED <<p1, p2, res2, out, mulVars, schudVars, textVars>>

\* from_str, one pass of its loop: a term is folded into p1
AlgReadTerm1 ==
    /\ pc = "alg_read"
    /\ \E m \in AlgMonomials :
        /\ Size(add_monomial(p1, m)) + Size(p2) <= AlgSize
        /\ p1' = add_monomial(p1, m)
    /\ UNCHANGED <<pc, p2, op, res, res2, out, mulVars, schudVars, textVars>>

\* the same for p2
AlgReadTerm2 ==
    /\ pc = "alg_read"
    /\ \E m \in AlgMonomials :
        /\ Size(p1) + Size(add_monomial(p2, m)) <= AlgSize
        /\ p2' = add_monomial(p2, m)
    /\ UNCHANGED <<pc, p1, op, res, res2, out, mulVars, schudVars, textVars>>

\* main.rs, add: &p1 + &p2
AlgAdd ==
    /\ pc = "alg_read"
    /\ res' = PolyAdd(p1, p2)
    /\ op' = <<"add">>
    /\ pc' = "alg_done"
    /\ UNCHANGED <<p1, p2, res2, out, mulVars, schudVars, textVars>>

\* main.rs, mul: &p1 * &p2
AlgMul ==
    /\ pc = "alg_read"
    /\ res' = PolyMul(p1, p2)
    /\ op' = <<"mul">>
    /\ pc' = "alg_done"
    /\ UNCHANGED <<p1, p2, res2, out, mulVars, schudVars, textVars>>

\* main.rs, p: the first operator applied to the polynomial read
AlgOp ==
    /\ pc = "alg_read"
    /\ p2 = <<>>
    /\ \E F \in Families : \E n \in Strands(F) :
        /\ res' = PolyOp(F, p1, n)
        /\ op' = <<"p", F, n>>
    /\ pc' = "alg_done"
    /\ UNCHANGED <<p1, p2, res2, out, mulVars, schudVars, textVars>>

\* main.rs, p: a further operator applied to the result
AlgOpAgain ==
    /\ pc = "alg_done"
    /\ op[1] = "p"
    /\ \E F \in Families : \E n \in Strands(F) :
        /\ res' = PolyOp(F, res, n)
        /\ op' = <<"p", F, n>>
    /\ UNCHANGED <<pc, p1, p2, res2, out, mulVars, schudVars, textVars>>

\* an operator applied to the sum, and to each operand and then summed
AlgLinear ==
    /\ pc = "alg_read"
    /\ \E F \in Families : \E n \in Strands(F) :
        /\ res' = PolyOp(F, PolyAdd(p1, p2), n)
        /\ res2' = PolyAdd(PolyOp(F, p1, n), PolyOp(F, p2, n))
        /\ op' = <<"linear", F, n>>
    /\ pc' = "alg_done"
    /\ UNCHANGED <<p1, p2, out, mulVars, schudVars, textVars>>

AlgNext ==
    AlgFromMonomial \/ AlgReadTerm1 \/ AlgReadTerm2 \/ AlgAdd \/ AlgMul \/ AlgOp \/ AlgOpAgain \/ AlgLinear

SpecAlg == AlgInit /\ [][AlgNext]_vars

\* no term of coefficient 0 and no two terms with equal zero-padded power
\* vectors
Canonical(terms) ==
    /\ \A k \in 1..Len(terms) : terms[k].coefficient # 0
    /\ \A k \in 1..Len(terms) : \A j \in 1..Len(terms) :
          SameSupport(terms[k].powers, terms[j].powers) => k = j

\* C1: every polynomial read term by term, and every result of an addition,
\* a multiplication and an operator (applied to a polynomial read, to a sum,
\* or to an operator's result), is in canonical form.
C1_CanonicalForm ==
    /\ Canonical(p1)
    /\ Canonical(p2)
    /\ Canonical(res)
    /\ Canonical(res2)

\* C1's case: an addition met a term of p2 whose power vector equals a term
\* of p1 only after zero-padding, merged the two, and kept the other terms.
C1_Witness ==
    /\ op = <<"add">>
    /\ Len(p1) = 2
    /\ \E k \in 1..Len(p1) : \E j \in 1..Len(p2) :
          /\ p1[k].powers # p2[j].powers
          /\ SameSupport(p1[k].powers, p2[j].powers)
    /\ Len(res) = Len(p1) + Len(p2) - 1

\* C4: F(p1 + p2, n) and F(p1, n) + F(p2, n) have the same (support,
\* coefficient) pairs, for each family F and each strand n it accepts.
C4_OperatorLinear ==
    op[1] = "linear" => Canon(res) = Canon(res2)

\* C4's case: the sum p1 + p2 cancelled or merged a term, the operator's
\* result is not zero, and the two sides differ as stored.
C4_Witness ==
    /\ op[1] = "linear"
    /\ Len(PolyAdd(p1, p2)) < Len(p1) + Len(p2)
    /\ res # <<>>
    /\ res # res2

=============================================================================
